---- MODULE Spec2Model ----
(***************************************************************************)
(* The BPF datapath loader's compile pipeline                              *)
(* (package loader, src/pkg/maps/tunnel/zz_generated.deepcopy.go):         *)
(*   - GetBPFCPU: the ISA level, probed once per process (sync.Once);      *)
(*   - compile: flag assembly, destination file, toolchain process,        *)
(*     diagnostics;                                                        *)
(*   - compileDatapath / compileNetwork / compileOverlay: the sessions.    *)
(*                                                                         *)
(* Five specifications share the module:                                   *)
(*   Spec      one build session (version query, debug artifacts,          *)
(*             production artifact) with cancellation and the toolchain    *)
(*             processes it spawns;                                        *)
(*   LiveSpec  Spec with the scheduling of its goroutine and processes;    *)
(*   SpecPair  two build sessions at the same time;                        *)
(*   SpecISA   concurrent callers of GetBPFCPU;                            *)
(*   SpecFlags the flag sequence compile builds, for every program and     *)
(*             directory set the entry points construct.                   *)
(***************************************************************************)
EXTENDS Integers, Sequences, FiniteSets, TLC

VARIABLES
    \* ---- configuration and process-wide state
    Debug,          \* option.Config.Debug
    DryMode,        \* option.Config.DryMode
    testIncludes,   \* the test seam's extra include flags (usually nil)
    onceDone,       \* probeCPUOnce: its done flag
    onceHolder,     \* probeCPUOnce: the holder of its mutex, or NoOne
    nameBPFCPU,     \* the cached ISA level
    \* ---- GetBPFCPU callers (SpecISA)
    cpc,            \* caller -> position in GetBPFCPU
    calls,          \* caller -> calls completed
    dryRead,        \* the dry-mode flag as the once-body read it
    bodyRuns,       \* how many times the once-body ran
    probeLog,       \* the probes invoked, in order
    probeAns,       \* what each of them answered: "nil" or "err"
    returned,       \* caller -> sequence of values its calls returned
    \* ---- flag assembly (SpecFlags)
    lastProg,       \* the progInfo of the last compile whose flags were built
    lastDir,        \* its directoryInfo
    lastCPU,        \* what GetBPFCPU returned to it
    compileArgs,    \* the flag sequence it built
    \* ---- sessions (Spec)
    pc,             \* session -> position
    sess,           \* session -> its parameters (category, out, opts)
    idx,            \* session -> index of the current program in its plan
    ctxDone,        \* session -> its context has been cancelled
    procs,          \* session -> the toolchain processes in flight
    result,         \* session -> the error the session returned
    logs,           \* session -> log entries emitted
    hist,           \* session -> what it did to files and processes, in order
    prior,          \* content of the destination files no build has touched
    files           \* path -> content of a destination file a build touched

cfgVars  == <<Debug, DryMode, testIncludes>>
onceVars == <<onceDone, onceHolder, nameBPFCPU, dryRead, bodyRuns, probeLog, probeAns>>
isaVars  == <<cpc, calls, returned>>
flagVars == <<lastProg, lastDir, lastCPU, compileArgs>>
sessVars == <<pc, sess, idx, ctxDone, procs, result, logs, hist, prior, files>>
vars     == <<cfgVars, onceVars, isaVars, flagVars, sessVars>>

-----------------------------------------------------------------------------
(* Bounds of the model *)

\* concurrent callers of GetBPFCPU
NumCallers == 2
\* calls each caller makes
MaxCalls == 2
\* length of a caller-supplied option list
MaxOpts == 2
\* lines the toolchain writes to standard error during one compile
MaxStderrLines == 22
\* lines of one write of the toolchain to standard error
LinesPerWrite == 11

-----------------------------------------------------------------------------
(* Names: the const block *)

outputObject   == "obj"
outputAssembly == "asm"
outputSource   == "c"

compiler == "clang"

endpointPrefix   == "bpf_lxc"
endpointProg     == endpointPrefix \o "." \o outputSource
endpointObj      == endpointPrefix \o ".o"
endpointObjDebug == endpointPrefix \o ".dbg.o"
endpointAsm      == endpointPrefix \o "." \o outputAssembly

hostEndpointPrefix   == "bpf_host"
hostEndpointProg     == hostEndpointPrefix \o "." \o outputSource
hostEndpointObj      == hostEndpointPrefix \o ".o"
hostEndpointObjDebug == hostEndpointPrefix \o ".dbg.o"
hostEndpointAsm      == hostEndpointPrefix \o "." \o outputAssembly

networkPrefix == "bpf_network"
networkProg   == networkPrefix \o "." \o outputSource
networkObj    == networkPrefix \o ".o"

overlayPrefix == "bpf_overlay"
overlayProg   == overlayPrefix \o "." \o outputSource
overlayObj    == overlayPrefix \o ".o"

-----------------------------------------------------------------------------
(* progInfo and directoryInfo *)

progInfo(src, out, type, opts) ==
    [Source |-> src, Output |-> out, OutputType |-> type, Options |-> opts]

directoryInfo(lib, runtime, state, out) ==
    [Library |-> lib, Runtime |-> runtime, State |-> state, Output |-> out]

\* common.GetNumPossibleCPUs: a property of the host, fixed while the
\* process runs
NumPossibleCPUs == 4

standardCFlags ==
    << "-O2", "--target=bpf", "-std=gnu89",
       "-nostdinc", "-D__NR_CPUS__=" \o ToString(NumPossibleCPUs),
       "-Wall", "-Wextra", "-Werror", "-Wshadow",
       "-Wno-address-of-packed-member",
       "-Wno-unknown-warning-option",
       "-Wno-gnu-variable-sized-type-not-at-end",
       "-Wdeclaration-after-statement",
       "-Wimplicit-int-conversion",
       "-Wenum-conversion" >>

debugProgs ==
    << progInfo(endpointProg, endpointObjDebug, outputObject, <<>>),
       progInfo(endpointProg, endpointAsm, outputAssembly, <<>>),
       progInfo(endpointProg, endpointProg, outputSource, <<>>) >>

debugHostProgs ==
    << progInfo(hostEndpointProg, hostEndpointObjDebug, outputObject, <<>>),
       progInfo(hostEndpointProg, hostEndpointAsm, outputAssembly, <<>>),
       progInfo(hostEndpointProg, hostEndpointProg, outputSource, <<>>) >>

epProg        == progInfo(endpointProg, endpointObj, outputObject, <<>>)
hostEpProg    == progInfo(hostEndpointProg, hostEndpointObj, outputObject, <<>>)
networkTcProg == progInfo(networkProg, networkObj, outputObject, <<>>)

\* the progInfo compileOverlay builds from its opts
overlayTcProg(opts) == progInfo(overlayProg, overlayObj, outputObject, opts)

-----------------------------------------------------------------------------
(* Configuration the entry points read, and the inputs they are given *)

\* option.Config.BpfDir and option.Config.StateDir: clean, non-empty paths
BpfDir   == "/L"
StateDir == "/R"

\* the out argument of compileTemplate
OutDirs == {"/O1", "/O2"}

\* options a caller may pass to compileOverlay / CompileWithOptions
OptPool == {"-DFOO=1", "-DBAR=2"}

RECURSIVE SeqsUpTo(_, _)
SeqsUpTo(S, n) ==
    IF n = 0 THEN {<<>>}
    ELSE LET shorter == SeqsUpTo(S, n - 1)
         IN  shorter \cup {Append(q, x) : q \in shorter, x \in S}

OptLists == SeqsUpTo(OptPool, MaxOpts)

\* values of the test seam
TestIncludeChoices == {<<>>, <<"-I/T">>}

\* path.Join of two elements: empty elements are ignored, the rest joined
\* with "/" (Clean changes nothing on the clean paths used here)
PathJoin(a, b) ==
    IF a = "" THEN b
    ELSE IF b = "" THEN a
    ELSE a \o "/" \o b

\* the directoryInfo compileTemplate builds
templateDirs(out) == directoryInfo(BpfDir, StateDir, out, out)
\* the directoryInfo compileNetwork, compileOverlay, CompileWithOptions build
stateDirs == directoryInfo(BpfDir, StateDir, StateDir, StateDir)

-----------------------------------------------------------------------------
(* GetBPFCPU *)

ISALevels == {"v1", "v2", "v3"}
NoOne == 0
Callers == 1 .. NumCallers

\* sync.Once.Do, fast path: the function is skipped when done is set
OnceFastPath(done) == done

\* sync.Once.doSlow: under the mutex, the function runs only if done is
\* still unset
OnceRunsBodyAlways(done) == TRUE
OnceRunsBody(done) == ~done

\* the once-body's first test: probing happens only outside dry mode
BodyProbesAlways(dry) == TRUE
BodyProbes(dry) == ~dry

\* The once-body as a function of the probe answers it would be given:
\* HaveV3ISA, then HaveProgramHelper only if V3 answered nil, then
\* HaveV2ISA only if v3 was not selected.
ProbeISA(dry, v3, helper, v2) ==
    IF ~BodyProbes(dry) THEN "v1"
    ELSE IF v3 /\ helper THEN "v3"
    ELSE IF v2 THEN "v2"
    ELSE "v1"

\* the probes that body calls, in order
ProbesCalled(dry, v3, helper, v2) ==
    IF ~BodyProbes(dry) THEN <<>>
    ELSE IF v3 /\ helper THEN <<"HaveV3ISA", "HaveProgramHelper">>
    ELSE IF v3 THEN <<"HaveV3ISA", "HaveProgramHelper", "HaveV2ISA">>
    ELSE <<"HaveV3ISA", "HaveV2ISA">>

\* a probe's answer: nil (available) or an error
Answer(ok) == IF ok THEN "nil" ELSE "err"

\* the answers the probes that body calls give, in order
AnswersGiven(dry, v3, helper, v2) ==
    IF ~BodyProbes(dry) THEN <<>>
    ELSE IF v3 /\ helper THEN <<"nil", "nil">>
    ELSE IF v3 THEN <<"nil", "err", Answer(v2)>>
    ELSE <<"err", Answer(v2)>>

\* "if probes.HaveV3ISA() == nil": the helper probe is the next step only
\* then, the V2 probe otherwise
AfterV3HelperAlways(ok) == "helper"
AfterV3(ok) == IF ok THEN "helper" ELSE "v2"

\* what the once-body read from option.Config.DryMode
DryTag(dry) == IF dry THEN "dry" ELSE "live"

\* GetBPFCPU by a caller that no other caller interleaves with (compile's
\* call): the once-body runs if it has not, and the cached level is read.
GetBPFCPUAtomic(cpu) ==
    IF OnceFastPath(onceDone)
    THEN /\ cpu = nameBPFCPU
         /\ UNCHANGED onceVars
    ELSE \E v3 \in BOOLEAN, helper \in BOOLEAN, v2 \in BOOLEAN :
            /\ cpu = ProbeISA(DryMode, v3, helper, v2)
            /\ nameBPFCPU' = cpu
            /\ onceDone' = TRUE
            /\ dryRead' = DryTag(DryMode)
            /\ bodyRuns' = bodyRuns + 1
            /\ probeLog' = probeLog \o ProbesCalled(DryMode, v3, helper, v2)
            /\ probeAns' = probeAns \o AnswersGiven(DryMode, v3, helper, v2)
            /\ UNCHANGED onceHolder

-----------------------------------------------------------------------------
(* compile: the flag sequence *)

\* the switch on prog.OutputType: outputAssembly falls through to
\* outputObject
KindFlagsNoFallthrough(type) ==
    CASE type = outputSource   -> <<"-E">>
      [] type = outputAssembly -> <<"-S">>
      [] type = outputObject   -> <<"-g">>
      [] OTHER                 -> <<>>
KindFlags(type) ==
    CASE type = outputSource   -> <<"-E">>
      [] type = outputAssembly -> <<"-S", "-g">>
      [] type = outputObject   -> <<"-g">>
      [] OTHER                 -> <<>>

IncludeFlags(dir, tinc) ==
    tinc \o << "-I" \o PathJoin(dir.Runtime, "globals"),
               "-I" \o dir.State,
               "-I" \o dir.Library,
               "-I" \o PathJoin(dir.Library, "include") >>

TailFlags(prog, dir) ==
    << "-c", PathJoin(dir.Library, prog.Source), "-o", "-" >>

BuildArgsOptionsLast(prog, dir, cpu, tinc) ==
    IncludeFlags(dir, tinc) \o KindFlags(prog.OutputType) \o standardCFlags
        \o << "-mcpu=" \o cpu >> \o TailFlags(prog, dir) \o prog.Options
BuildArgs(prog, dir, cpu, tinc) ==
    IncludeFlags(dir, tinc) \o KindFlags(prog.OutputType) \o standardCFlags
        \o << "-mcpu=" \o cpu >> \o prog.Options \o TailFlags(prog, dir)

-----------------------------------------------------------------------------
(* GetBPFCPU under concurrent callers: sync.Once.Do step by step *)

\* GetBPFCPU is entered: Once.Do tests done without the mutex
ISACall(c) ==
    /\ cpc[c] = "idle"
    /\ calls[c] < MaxCalls
    /\ cpc' = [cpc EXCEPT ![c] = IF OnceFastPath(onceDone) THEN "ret" ELSE "slow"]
    /\ UNCHANGED <<cfgVars, onceVars, calls, returned, flagVars, sessVars>>

\* doSlow: o.m.Lock()
ISALock(c) ==
    /\ cpc[c] = "slow"
    /\ onceHolder = NoOne
    /\ onceHolder' = c
    /\ cpc' = [cpc EXCEPT ![c] = "locked"]
    /\ UNCHANGED <<cfgVars, onceDone, nameBPFCPU, dryRead, bodyRuns, probeLog, probeAns,
                   calls, returned, flagVars, sessVars>>

\* doSlow: the second test of done, under the mutex
ISACheck(c) ==
    /\ cpc[c] = "locked"
    /\ IF OnceRunsBody(onceDone)
       THEN /\ cpc' = [cpc EXCEPT ![c] = "body"]
            /\ bodyRuns' = bodyRuns + 1
       ELSE /\ cpc' = [cpc EXCEPT ![c] = "unlock"]
            /\ UNCHANGED bodyRuns
    /\ UNCHANGED <<cfgVars, onceDone, onceHolder, nameBPFCPU, dryRead, probeLog, probeAns,
                   calls, returned, flagVars, sessVars>>

\* the body reads option.Config.DryMode
ISABody(c) ==
    /\ cpc[c] = "body"
    /\ dryRead' = DryTag(DryMode)
    /\ cpc' = [cpc EXCEPT ![c] = IF BodyProbes(DryMode) THEN "v3" ELSE "fin"]
    /\ UNCHANGED <<cfgVars, onceDone, onceHolder, nameBPFCPU, bodyRuns, probeLog, probeAns,
                   calls, returned, flagVars, sessVars>>

\* probes.HaveV3ISA() == nil ?
ISAProbeV3(c) ==
    /\ cpc[c] = "v3"
    /\ probeLog' = Append(probeLog, "HaveV3ISA")
    /\ \E ok \in BOOLEAN :
          /\ probeAns' = Append(probeAns, Answer(ok))
          /\ cpc' = [cpc EXCEPT ![c] = AfterV3(ok)]
    /\ UNCHANGED <<cfgVars, onceDone, onceHolder, nameBPFCPU, dryRead, bodyRuns,
                   calls, returned, flagVars, sessVars>>

\* probes.HaveProgramHelper(SchedCLS, FnRedirectNeigh) == nil ?
ISAProbeHelper(c) ==
    /\ cpc[c] = "helper"
    /\ probeLog' = Append(probeLog, "HaveProgramHelper")
    /\ \E ok \in BOOLEAN :
          /\ probeAns' = Append(probeAns, Answer(ok))
          /\ IF ok
             THEN /\ nameBPFCPU' = "v3"
                  /\ cpc' = [cpc EXCEPT ![c] = "fin"]
             ELSE /\ cpc' = [cpc EXCEPT ![c] = "v2"]
                  /\ UNCHANGED nameBPFCPU
    /\ UNCHANGED <<cfgVars, onceDone, onceHolder, dryRead, bodyRuns,
                   calls, returned, flagVars, sessVars>>

\* probes.HaveV2ISA() == nil ?
ISAProbeV2(c) ==
    /\ cpc[c] = "v2"
    /\ probeLog' = Append(probeLog, "HaveV2ISA")
    /\ \E ok \in BOOLEAN :
          /\ probeAns' = Append(probeAns, Answer(ok))
          /\ nameBPFCPU' = IF ok THEN "v2" ELSE nameBPFCPU
    /\ cpc' = [cpc EXCEPT ![c] = "fin"]
    /\ UNCHANGED <<cfgVars, onceDone, onceHolder, dryRead, bodyRuns,
                   calls, returned, flagVars, sessVars>>

\* the body has returned: the deferred o.done.Store(1)
ISAFinish(c) ==
    /\ cpc[c] = "fin"
    /\ onceDone' = TRUE
    /\ cpc' = [cpc EXCEPT ![c] = "unlock"]
    /\ UNCHANGED <<cfgVars, onceHolder, nameBPFCPU, dryRead, bodyRuns, probeLog, probeAns,
                   calls, returned, flagVars, sessVars>>

\* the deferred o.m.Unlock()
ISAUnlock(c) ==
    /\ cpc[c] = "unlock"
    /\ onceHolder' = NoOne
    /\ cpc' = [cpc EXCEPT ![c] = "ret"]
    /\ UNCHANGED <<cfgVars, onceDone, nameBPFCPU, dryRead, bodyRuns, probeLog, probeAns,
                   calls, returned, flagVars, sessVars>>

\* return nameBPFCPU
ISAReturn(c) ==
    /\ cpc[c] = "ret"
    /\ returned' = [returned EXCEPT ![c] = Append(@, nameBPFCPU)]
    /\ calls' = [calls EXCEPT ![c] = @ + 1]
    /\ cpc' = [cpc EXCEPT ![c] = "idle"]
    /\ UNCHANGED <<cfgVars, onceVars, flagVars, sessVars>>

\* the configuration's dry-mode flag is changed while the process runs
SetDryMode ==
    /\ DryMode' = ~DryMode
    /\ UNCHANGED <<Debug, testIncludes, onceVars, isaVars, flagVars, sessVars>>

-----------------------------------------------------------------------------
(* Sessions: compileTemplate -> compileDatapath, compileNetwork,
   compileOverlay *)

Sessions   == {"s1", "s2"}
Datapath   == {"endpoint", "host"}

NoSess == [cat |-> "none", out |-> "", opts |-> <<>>]

\* the parameters a session can be started with
SessionParams ==
    {[cat |-> c, out |-> o, opts |-> <<>>] : c \in Datapath, o \in OutDirs}
    \cup {[cat |-> "network", out |-> StateDir, opts |-> <<>>]}
    \cup {[cat |-> "overlay", out |-> StateDir, opts |-> o] : o \in OptLists}

\* the directoryInfo of a session
SessionDirs(se) ==
    IF se.cat \in Datapath THEN templateDirs(se.out) ELSE stateDirs

\* The programs a session compiles, in order: compileDatapath's debug loop
\* (only under option.Config.Debug) and its production program;
\* compileNetwork's and compileOverlay's single program.
PlanProductionFirst(cat, debug, opts) ==
    CASE cat = "endpoint" -> <<epProg>> \o (IF debug THEN debugProgs ELSE <<>>)
      [] cat = "host"     -> <<hostEpProg>> \o (IF debug THEN debugHostProgs ELSE <<>>)
      [] cat = "network"  -> <<networkTcProg>>
      [] cat = "overlay"  -> <<overlayTcProg(opts)>>
PlanDebugAlways(cat, debug, opts) ==
    CASE cat = "endpoint" -> debugProgs \o <<epProg>>
      [] cat = "host"     -> debugHostProgs \o <<hostEpProg>>
      [] cat = "network"  -> <<networkTcProg>>
      [] cat = "overlay"  -> <<overlayTcProg(opts)>>
Plan(cat, debug, opts) ==
    CASE cat = "endpoint" -> (IF debug THEN debugProgs ELSE <<>>) \o <<epProg>>
      [] cat = "host"     -> (IF debug THEN debugHostProgs ELSE <<>>) \o <<hostEpProg>>
      [] cat = "network"  -> <<networkTcProg>>
      [] cat = "overlay"  -> <<overlayTcProg(opts)>>

SessionPlan(s) == Plan(sess[s].cat, Debug, sess[s].opts)
CurProg(s)     == SessionPlan(s)[idx[s]]
\* a step of compileDatapath's debug loop (every step but the plan's last)
IsDebugStep(s) == idx[s] < Len(SessionPlan(s))

\* the destination of a program: path.Join(dir.Output, prog.Output)
DestPathNameOnly(prog, dir) == prog.Output
DestPathOneFile(prog, dir) == PathJoin(dir.Output, "out.o")
DestPath(prog, dir) == PathJoin(dir.Output, prog.Output)

ArtifactNames ==
    {debugProgs[i].Output : i \in 1 .. 3} \cup {debugHostProgs[i].Output : i \in 1 .. 3}
    \cup {epProg.Output, hostEpProg.Output, networkTcProg.Output, overlayObj}
AllPaths == {PathJoin(d, n) : d \in OutDirs \cup {StateDir}, n \in ArtifactNames}

\* the content of the file at path p: "absent", "old" (left by an earlier
\* build), "empty" (created or truncated by os.Create; a failed compiler
\* may have written part of its output), "new" (the complete artifact)
FileContent(p) == IF p \in DOMAIN files THEN files[p] ELSE prior
\* os.Create truncates the file; the process then writes its output to it
WriteFileKeepsOld(f, p, content) == f
WriteFile(f, p, content) == (p :> content) @@ f

-----------------------------------------------------------------------------
(* Errors and log entries *)

\* errors.Is(err, context.Canceled)
IsCanceled(err) == err = "canceled"

\* What exec.Cmd.Run can return for a process that was started, by the
\* state of the process (os/exec).  Run waits for the process: while it
\* runs, Run returns nothing.  A non-success status, a kill by the context
\* included, is reported as the exit status (*ExitError); the context's
\* error is reported only when the process still exited with success after
\* the context was done.
RunErrsNoWait(st, done) ==
    CASE st = "running" -> IF done THEN {"canceled"} ELSE {"nil"}
      [] st = "exit0"   -> IF done THEN {"nil", "canceled"} ELSE {"nil"}
      [] st = "exit1"   -> {"exit"}
      [] st = "killed"  -> {"killed"}
RunErrs(st, done) ==
    CASE st = "running" -> {}
      [] st = "exit0"   -> IF done THEN {"nil", "canceled"} ELSE {"nil"}
      [] st = "exit1"   -> {"exit"}
      [] st = "killed"  -> {"killed"}

\* the error of the version query (Cmd.CombinedOutput of the exec wrapper)
VersionErr(st, done) ==
    IF done THEN "canceled"
    ELSE IF st = "exit0" THEN "nil"
    ELSE "version"

\* bufio.Scanner over io.LimitReader(&compilerStderr, 1_000_000): the lines
\* that begin within the first StderrLimit bytes
StderrLimit == 1000000
\* bytes of one line of compiler diagnostics in this model (bufio.Scanner
\* takes lines of up to 64 KiB)
LineBytes == 50000
\* the bytes compilerStderr holds after n lines were written to it
BufferedBytes(n) == n * LineBytes

ScannedLines(n) ==
    IF BufferedBytes(n) <= StderrLimit THEN n
    ELSE (StderrLimit + LineBytes - 1) \div LineBytes

\* A log entry about a failure.  The entries that report no failure
\* ("Launching compiler", "Compiling datapath", the peak-RSS line) are not
\* recorded.
LogEntry(who, level, msg, art, line) ==
    [who |-> who, level |-> level, msg |-> msg, art |-> art, line |-> line]

\* compile's own entries for a failed Run: the error report (with
\* compiler-pid and max-rss) unless the error is a cancellation, then every
\* scanned line of the captured standard error
CompileLogs(err, art, nlines) ==
    (IF ~IsCanceled(err)
     THEN {LogEntry("compile", "error", "report", art, 0)}
     ELSE {})
    \cup {LogEntry("compile", "warn", "stderr", art, i) : i \in 1 .. ScannedLines(nlines)}

\* the caller's entry for a failed compile: compileDatapath logs (Debug for
\* a debug program, Warn for the production program) unless the error is a
\* cancellation; compileNetwork and compileOverlay always log a Warn
SessionLogs(cat, debugStep, err, art) ==
    IF cat \in Datapath
    THEN IF ~IsCanceled(err)
         THEN {LogEntry("session", IF debugStep THEN "debug" ELSE "warn",
                        "JoinEP: Failed to compile", art, 0)}
         ELSE {}
    ELSE {LogEntry("session", "warn", "Failed to compile", art, 0)}

\* what os.Create returns: nil, or an error (*fs.PathError)
CreateErrs == {"nil", "io"}

\* "output, err := os.Create(...); if err != nil { return "", err }"
ReturnsOnCreateErrNever(err) == FALSE
ReturnsOnCreateErr(err) == err # "nil"

\* "if err != nil { ...; return err }" after a step
AbortsOnProductionOnly(err, debugStep) == err # "nil" /\ ~debugStep
AbortsOn(err, debugStep) == err # "nil"

-----------------------------------------------------------------------------
(* History of a session: file creations, process spawns, returns *)

Event(ev, cmd, err, done, mid, st, nlines) ==
    [ev |-> ev, cmd |-> cmd, err |-> err, ctxDone |-> done, mid |-> mid,
     st |-> st, stderr |-> nlines]

\* A toolchain process: the executable, what it builds (the artifact name,
\* or "--version"), its arguments, how it ended, the lines it wrote to
\* standard error, and whether the context was cancelled while it ran.
Proc(cmd, args) ==
    [exe |-> compiler, cmd |-> cmd, args |-> args, st |-> "running",
     stderr |-> 0, mid |-> FALSE]

\* a goroutine that panicked has taken the process down
Alive == \A s \in Sessions : pc[s] # "panicked"

-----------------------------------------------------------------------------
(* The toolchain processes and the session's context *)

\* the context of session s is cancelled by its owner
Cancel(s) ==
    /\ Alive
    /\ pc[s] \in {"idle", "version", "compile", "created", "running"}
    /\ ~ctxDone[s]
    /\ ctxDone' = [ctxDone EXCEPT ![s] = TRUE]
    /\ procs' = [procs EXCEPT ![s] =
                    {IF p.st = "running" THEN [p EXCEPT !.mid = TRUE] ELSE p : p \in @}]
    /\ UNCHANGED <<cfgVars, onceVars, isaVars, flagVars,
                   pc, sess, idx, result, logs, hist, prior, files>>

\* the compiler writes lines of diagnostics to its standard error, all of
\* which compile's compilerStderr (a bytes.Buffer) takes in
ProcStderr(s) ==
    /\ Alive
    /\ \E p \in procs[s] :
        /\ p.st = "running"
        /\ p.cmd # "--version"
        /\ p.stderr + LinesPerWrite <= MaxStderrLines
        /\ procs' = [procs EXCEPT ![s] =
                        (@ \ {p}) \cup {[p EXCEPT !.stderr = @ + LinesPerWrite]}]
    /\ UNCHANGED <<cfgVars, onceVars, isaVars, flagVars,
                   pc, sess, idx, ctxDone, result, logs, hist, prior, files>>

\* A process ends by itself, with success (its standard output, the
\* destination file, then holds the complete artifact: "new") or not (the
\* file stays as truncated, "empty", whatever part was written).
ProcExit(s) ==
    /\ Alive
    /\ \E p \in procs[s], st \in {"exit0", "exit1"} :
        /\ p.st = "running"
        /\ procs' = [procs EXCEPT ![s] = (@ \ {p}) \cup {[p EXCEPT !.st = st]}]
        /\ IF p.cmd # "--version" /\ st = "exit0"
           THEN files' = WriteFile(files, DestPath(CurProg(s), SessionDirs(sess[s])), "new")
           ELSE UNCHANGED files
    /\ UNCHANGED <<cfgVars, onceVars, isaVars, flagVars,
                   pc, sess, idx, ctxDone, result, logs, hist, prior>>

\* exec kills the process of a command whose context is done
ProcKill(s) ==
    /\ Alive
    /\ ctxDone[s]
    /\ \E p \in procs[s] :
        /\ p.st = "running"
        /\ procs' = [procs EXCEPT ![s] = (@ \ {p}) \cup {[p EXCEPT !.st = "killed"]}]
    /\ UNCHANGED <<cfgVars, onceVars, isaVars, flagVars,
                   pc, sess, idx, ctxDone, result, logs, hist, prior, files>>

-----------------------------------------------------------------------------
(* The session *)

\* compileTemplate / compileNetwork / compileOverlay is called: the
\* directories are set up and the version query is started
SessionStart(s) ==
    /\ Alive
    /\ pc[s] = "idle"
    /\ \E se \in SessionParams :
        /\ sess' = [sess EXCEPT ![s] = se]
        /\ IF ctxDone[s]
           THEN /\ hist' = [hist EXCEPT ![s] = Append(@,
                        Event("spawn", "--version", VersionErr("none", TRUE),
                              TRUE, FALSE, "none", 0))]
                /\ result' = [result EXCEPT ![s] = VersionErr("none", TRUE)]
                /\ pc' = [pc EXCEPT ![s] = "failed"]
                /\ UNCHANGED procs
           ELSE \E spawned \in BOOLEAN :
                  IF spawned
                  THEN /\ procs' = [procs EXCEPT ![s] = @ \cup {Proc("--version", <<"--version">>)}]
                       /\ hist' = [hist EXCEPT ![s] = Append(@,
                               Event("spawn", "--version", "nil", FALSE, FALSE, "running", 0))]
                       /\ pc' = [pc EXCEPT ![s] = "version"]
                       /\ UNCHANGED result
                  ELSE /\ hist' = [hist EXCEPT ![s] = Append(@,
                               Event("spawn", "--version", VersionErr("none", FALSE),
                                     FALSE, FALSE, "none", 0))]
                       /\ result' = [result EXCEPT ![s] = VersionErr("none", FALSE)]
                       /\ pc' = [pc EXCEPT ![s] = "failed"]
                       /\ UNCHANGED procs
    /\ UNCHANGED <<cfgVars, onceVars, isaVars, flagVars, idx, ctxDone, logs, prior, files>>

\* versionCmd.CombinedOutput returns; "if err != nil { return err }"
VersionReturn(s) ==
    /\ Alive
    /\ pc[s] = "version"
    /\ \E p \in procs[s] :
        /\ p.cmd = "--version"
        /\ p.st # "running"
        /\ LET err == VersionErr(p.st, ctxDone[s]) IN
            /\ procs' = [procs EXCEPT ![s] = @ \ {p}]
            /\ hist' = [hist EXCEPT ![s] = Append(@,
                    Event("return", "--version", err, ctxDone[s], p.mid, p.st, 0))]
            /\ IF err # "nil"
               THEN /\ result' = [result EXCEPT ![s] = err]
                    /\ pc' = [pc EXCEPT ![s] = "failed"]
                    /\ UNCHANGED idx
               ELSE /\ pc' = [pc EXCEPT ![s] = "compile"]
                    /\ idx' = [idx EXCEPT ![s] = 1]
                    /\ UNCHANGED result
    /\ UNCHANGED <<cfgVars, onceVars, isaVars, flagVars, sess, ctxDone, logs, prior, files>>

\* The caller's handling of compile's result err for the current program:
\* its log entry and return on an error, the next program or the end of the
\* session otherwise.  clogs are the entries compile itself emitted.
AfterCompile(s, err, clogs) ==
    IF AbortsOn(err, IsDebugStep(s))
    THEN /\ logs' = [logs EXCEPT ![s] = @ \cup clogs \cup
                        SessionLogs(sess[s].cat, IsDebugStep(s), err, CurProg(s).Output)]
         /\ result' = [result EXCEPT ![s] = err]
         /\ pc' = [pc EXCEPT ![s] = "failed"]
         /\ UNCHANGED idx
    ELSE /\ logs' = [logs EXCEPT ![s] = @ \cup clogs]
         /\ IF idx[s] < Len(SessionPlan(s))
            THEN /\ idx' = [idx EXCEPT ![s] = @ + 1]
                 /\ pc' = [pc EXCEPT ![s] = "compile"]
                 /\ UNCHANGED result
            ELSE /\ result' = [result EXCEPT ![s] = "nil"]
                 /\ pc' = [pc EXCEPT ![s] = "done"]
                 /\ UNCHANGED idx

\* compile is called for the current program: the flags are built (with
\* GetBPFCPU), the command is set up, and os.Create creates or truncates the
\* destination; when that fails compile returns the error at once
CompileCreate(s) ==
    /\ Alive
    /\ pc[s] = "compile"
    /\ LET prog == CurProg(s)
           dir  == SessionDirs(sess[s])
       IN
        /\ \E cpu \in ISALevels :
            /\ GetBPFCPUAtomic(cpu)
            /\ lastCPU' = cpu
            /\ compileArgs' = BuildArgs(prog, dir, cpu, testIncludes)
        /\ lastProg' = prog
        /\ lastDir' = dir
        /\ \E cerr \in CreateErrs :
            /\ hist' = [hist EXCEPT ![s] = Append(@,
                    Event("create", prog.Output, cerr, ctxDone[s], FALSE, "none", 0))]
            /\ files' = IF cerr = "nil"
                        THEN WriteFile(files, DestPath(prog, dir), "empty")
                        ELSE files
            /\ IF ReturnsOnCreateErr(cerr)
               THEN AfterCompile(s, cerr, {})
               ELSE /\ pc' = [pc EXCEPT ![s] = "created"]
                    /\ UNCHANGED <<idx, result, logs>>
    /\ UNCHANGED <<cfgVars, isaVars, sess, ctxDone, procs, prior>>

\* compileCmd.Run starts the command.  Start refuses a context that is
\* already done, and the spawn itself can fail; in both cases no process
\* exists, compileCmd.ProcessState stays nil, and the SysUsage call on it
\* that follows Run dereferences nil: the goroutine panics.
CompileStart(s) ==
    /\ Alive
    /\ pc[s] = "created"
    /\ LET prog == CurProg(s) IN
        IF ctxDone[s]
        THEN /\ hist' = [hist EXCEPT ![s] = Append(@,
                     Event("spawn", prog.Output, "canceled", TRUE, FALSE, "none", 0))]
             /\ pc' = [pc EXCEPT ![s] = "panicked"]
             /\ UNCHANGED procs
        ELSE \E spawned \in BOOLEAN :
               IF spawned
               THEN /\ procs' = [procs EXCEPT ![s] = @ \cup {Proc(prog.Output, compileArgs)}]
                    /\ hist' = [hist EXCEPT ![s] = Append(@,
                            Event("spawn", prog.Output, "nil", FALSE, FALSE, "running", 0))]
                    /\ pc' = [pc EXCEPT ![s] = "running"]
               ELSE /\ hist' = [hist EXCEPT ![s] = Append(@,
                            Event("spawn", prog.Output, "exec", FALSE, FALSE, "none", 0))]
                    /\ pc' = [pc EXCEPT ![s] = "panicked"]
                    /\ UNCHANGED procs
    /\ UNCHANGED <<cfgVars, onceVars, isaVars, flagVars,
                   sess, idx, ctxDone, result, logs, prior, files>>

\* compileCmd.Run returns, which it does once the process has ended:
\* compile logs and wraps a failure and returns, and its caller handles the
\* result
CompileReturn(s) ==
    /\ Alive
    /\ pc[s] = "running"
    /\ \E p \in procs[s] :
        /\ p.cmd = CurProg(s).Output
        /\ \E err \in RunErrs(p.st, ctxDone[s]) :
            /\ procs' = [procs EXCEPT ![s] = @ \ {p}]
            /\ hist' = [hist EXCEPT ![s] = Append(@,
                    Event("return", p.cmd, err, ctxDone[s], p.mid, p.st, p.stderr))]
            /\ AfterCompile(s, err,
                            IF err # "nil" THEN CompileLogs(err, p.cmd, p.stderr) ELSE {})
    /\ UNCHANGED <<cfgVars, onceVars, isaVars, flagVars, sess, ctxDone, prior, files>>

-----------------------------------------------------------------------------
(* Spec: one session *)

InitConfig ==
    /\ Debug \in BOOLEAN
    /\ DryMode \in BOOLEAN

InitOnce ==
    /\ onceDone = FALSE
    /\ onceHolder = NoOne
    /\ nameBPFCPU = "v1"
    /\ dryRead = "none"
    /\ bodyRuns = 0
    /\ probeLog = <<>>
    /\ probeAns = <<>>

InitCallers ==
    /\ cpc = [c \in Callers |-> "idle"]
    /\ calls = [c \in Callers |-> 0]
    /\ returned = [c \in Callers |-> <<>>]

InitFlags ==
    /\ lastProg = epProg
    /\ lastDir = stateDirs
    /\ lastCPU = "none"
    /\ compileArgs = <<>>

\* the sessions in live are about to be started; the destination files are
\* all absent, or all left by an earlier build ("old")
InitSessions(live) ==
    /\ pc = [s \in Sessions |-> IF s \in live THEN "idle" ELSE "off"]
    /\ sess = [s \in Sessions |-> NoSess]
    /\ idx = [s \in Sessions |-> 0]
    /\ ctxDone = [s \in Sessions |-> FALSE]
    /\ procs = [s \in Sessions |-> {}]
    /\ result = [s \in Sessions |-> "none"]
    /\ logs = [s \in Sessions |-> {}]
    /\ hist = [s \in Sessions |-> <<>>]
    /\ prior \in {"absent", "old"}
    /\ files = [p \in {} |-> "absent"]

Init ==
    /\ InitConfig
    /\ testIncludes = <<>>
    /\ InitOnce
    /\ InitCallers
    /\ InitFlags
    /\ InitSessions({"s1"})

SessionNext(s) ==
    \/ SessionStart(s)
    \/ VersionReturn(s)
    \/ CompileCreate(s)
    \/ CompileStart(s)
    \/ CompileReturn(s)
    \/ Cancel(s)
    \/ ProcStderr(s)
    \/ ProcExit(s)
    \/ ProcKill(s)

Next == \E s \in Sessions : SessionNext(s)

Spec == Init /\ [][Next]_vars

-----------------------------------------------------------------------------
(* LiveSpec: Spec with its scheduling.  A goroutine that can take a step
   takes it (the session's code has no blocking point other than the wait
   for its process), every toolchain process ends by itself after a while,
   and exec kills the process of a command whose context is done. *)

SessionStep(s) ==
    \/ SessionStart(s)
    \/ VersionReturn(s)
    \/ CompileCreate(s)
    \/ CompileStart(s)
    \/ CompileReturn(s)

Fairness ==
    \A s \in Sessions :
        /\ WF_vars(SessionStep(s))
        /\ WF_vars(ProcExit(s))
        /\ WF_vars(ProcKill(s))

LiveSpec == Spec /\ Fairness

-----------------------------------------------------------------------------
(* SpecPair: two sessions at the same time.  The ISA level and the earlier
   content of the files play no part in where a session writes: the pair
   runs in dry mode over an empty state directory, and its contexts stay
   live. *)

InitPair ==
    /\ Debug \in BOOLEAN
    /\ DryMode = TRUE
    /\ testIncludes = <<>>
    /\ InitOnce
    /\ InitCallers
    /\ InitFlags
    /\ InitSessions(Sessions)
    /\ prior = "absent"

PairNext(s) ==
    \/ SessionStart(s)
    \/ VersionReturn(s)
    \/ CompileCreate(s)
    \/ CompileStart(s)
    \/ CompileReturn(s)
    \/ ProcExit(s)

NextPair == \E s \in Sessions : PairNext(s)

SpecPair == InitPair /\ [][NextPair]_vars

-----------------------------------------------------------------------------
(* SpecISA: concurrent callers of GetBPFCPU *)

InitISA ==
    /\ Debug = FALSE
    /\ DryMode \in BOOLEAN
    /\ testIncludes = <<>>
    /\ InitOnce
    /\ InitCallers
    /\ InitFlags
    /\ InitSessions({})

CallerNext(c) ==
    \/ ISACall(c)
    \/ ISALock(c)
    \/ ISACheck(c)
    \/ ISABody(c)
    \/ ISAProbeV3(c)
    \/ ISAProbeHelper(c)
    \/ ISAProbeV2(c)
    \/ ISAFinish(c)
    \/ ISAUnlock(c)
    \/ ISAReturn(c)

NextISA == (\E c \in Callers : CallerNext(c)) \/ SetDryMode

SpecISA == InitISA /\ [][NextISA]_vars

-----------------------------------------------------------------------------
(* SpecFlags: the flag sequence of compile, over the programs and
   directories its callers pass *)

\* CompileWithOptions' progInfo for a source, an output and options
SourceNames == {overlayProg, "bpf_sock.c"}
withOptionsProg(src, out, opts) == progInfo(src, out, outputObject, opts)

FlagInputs ==
    {<<debugProgs[i], templateDirs(o)>> : i \in 1 .. 3, o \in OutDirs}
    \cup {<<debugHostProgs[i], templateDirs(o)>> : i \in 1 .. 3, o \in OutDirs}
    \cup {<<epProg, templateDirs(o)>> : o \in OutDirs}
    \cup {<<hostEpProg, templateDirs(o)>> : o \in OutDirs}
    \cup {<<networkTcProg, stateDirs>>}
    \cup {<<overlayTcProg(opts), stateDirs>> : opts \in OptLists}
    \cup {<<withOptionsProg(src, "out.o", opts), stateDirs>> :
             src \in SourceNames, opts \in OptLists}

InitFlagSpec ==
    /\ Debug = FALSE
    /\ DryMode \in BOOLEAN
    /\ testIncludes \in TestIncludeChoices
    /\ InitOnce
    /\ InitCallers
    /\ InitFlags
    /\ InitSessions({})

\* compile builds its flag sequence for prog and dir
FlagCompile ==
    /\ \E in \in FlagInputs, cpu \in ISALevels :
        /\ GetBPFCPUAtomic(cpu)
        /\ lastProg' = in[1]
        /\ lastDir' = in[2]
        /\ lastCPU' = cpu
        /\ compileArgs' = BuildArgs(in[1], in[2], cpu, testIncludes)
    /\ UNCHANGED <<cfgVars, isaVars, sessVars>>

NextFlags == FlagCompile

SpecFlags == InitFlagSpec /\ [][NextFlags]_vars

-----------------------------------------------------------------------------
(* Reading a session's history *)

IsPrefix(a, b) == Len(a) <= Len(b) /\ SubSeq(b, 1, Len(a)) = a

Range(q) == {q[i] : i \in 1 .. Len(q)}

IsSpawn(e)    == e.ev = "spawn" /\ e.err = "nil"
IsCreate(e)   == e.ev = "create" /\ e.err = "nil"
IsOkReturn(e) == e.ev = "return" /\ e.err = "nil"

\* the commands of the events of h that satisfy Test, in order
CmdsOf(h, Test(_)) ==
    LET sel == SelectSeq(h, Test) IN [i \in 1 .. Len(sel) |-> sel[i].cmd]

\* how many of the first n events of h satisfy Test
CountIn(h, n, Test(_)) == Cardinality({i \in 1 .. n : Test(h[i])})

\* the compile of an artifact was attempted (os.Create was called for it)
IsAttempt(e) == e.ev = "create"

\* the compile ended because the context was cancelled: its process was
\* killed by the context, or Run reported the context's error
FailedByCancel(e) ==
    /\ e.ev = "return"
    /\ e.cmd # "--version"
    /\ (e.st = "killed" \/ e.err = "canceled")

-----------------------------------------------------------------------------
(* C1 *)

ExpectedInvocations(cat, debug) ==
    <<"--version">>
    \o (CASE debug /\ cat = "endpoint" -> <<"bpf_lxc.dbg.o", "bpf_lxc.asm", "bpf_lxc.c">>
          [] debug /\ cat = "host"     -> <<"bpf_host.dbg.o", "bpf_host.asm", "bpf_host.c">>
          [] OTHER                     -> <<>>)
    \o (IF cat = "endpoint" THEN <<"bpf_lxc.o">> ELSE <<"bpf_host.o">>)

\* C1: in an endpoint or host-endpoint session the toolchain processes are
\* spawned in the order version query, (under debug) debug object, assembly,
\* preprocessed source, then production object; when a process is spawned
\* every process spawned before it has returned with success; at most one
\* process of the session is in flight.
C1_InvocationOrder ==
    \A s \in Sessions :
        sess[s].cat \in Datapath =>
            /\ IsPrefix(CmdsOf(hist[s], IsSpawn), ExpectedInvocations(sess[s].cat, Debug))
            /\ \A j \in 1 .. Len(hist[s]) :
                  IsSpawn(hist[s][j]) =>
                      CountIn(hist[s], j - 1, IsSpawn) = CountIn(hist[s], j - 1, IsOkReturn)
            /\ Cardinality(procs[s]) <= 1

\* a debug session of the endpoint category ran all five invocations
C1_Witness ==
    \E s \in Sessions :
        /\ sess[s].cat = "endpoint"
        /\ Debug
        /\ pc[s] = "done"
        /\ Len(CmdsOf(hist[s], IsSpawn)) = 5

-----------------------------------------------------------------------------
(* C2 *)

\* C2: in every session, a failed step (version query, file creation,
\* process start, process result) is the last thing the session does: no
\* file is created and no process spawned after it, and no process is left
\* in flight; after a failed version query no artifact was attempted.
C2_FailFast ==
    \A s \in Sessions :
        /\ \A i \in 1 .. Len(hist[s]) :
              hist[s][i].err # "nil" =>
                  /\ i = Len(hist[s])
                  /\ pc[s] \in {"failed", "panicked"}
                  /\ procs[s] = {}
        /\ (\E i \in 1 .. Len(hist[s]) :
                hist[s][i].cmd = "--version" /\ hist[s][i].err # "nil")
              => CountIn(hist[s], Len(hist[s]), IsAttempt) = 0

\* the first debug artifact of a debug session failed in the compiler, and
\* the session ended there
C2_Witness ==
    \E s \in Sessions :
        /\ Debug
        /\ sess[s].cat = "host"
        /\ pc[s] = "failed"
        /\ result[s] = "exit"
        /\ hist[s][Len(hist[s])].cmd = "bpf_host.dbg.o"
        /\ CmdsOf(hist[s], IsAttempt) = <<"bpf_host.dbg.o">>

-----------------------------------------------------------------------------
(* C3 *)

FailureLevels == {"error", "warn"}

\* C3: a compile whose context is cancelled while its process runs, and
\* that ends by that cancellation, returns an error that
\* errors.Is(err, context.Canceled) recognises, and compile emits no
\* failure-level entry for it: neither the error report nor a line of the
\* captured standard error.
C3_CancelIsSilent ==
    \A s \in Sessions :
        \A i \in 1 .. Len(hist[s]) :
            LET e == hist[s][i] IN
            (FailedByCancel(e) /\ e.mid) =>
                /\ IsCanceled(e.err)
                /\ ~ \E l \in logs[s] :
                        l.who = "compile" /\ l.art = e.cmd /\ l.level \in FailureLevels

-----------------------------------------------------------------------------
(* C4 *)

\* C4: in every category, when the compile of an artifact ends by
\* cancellation, the session's caller code logs no "Failed to compile"
\* entry for that artifact, at any level.
C4_NoSessionLogOnCancel ==
    \A s \in Sessions :
        \A i \in 1 .. Len(hist[s]) :
            LET e == hist[s][i] IN
            FailedByCancel(e) =>
                ~ \E l \in logs[s] : l.who = "session" /\ l.art = e.cmd

-----------------------------------------------------------------------------
(* C5 *)

\* C5: once the context of a session is cancelled, no destination file is
\* created or truncated and no toolchain process is spawned by that session.
C5_NothingAfterCancel ==
    \A s \in Sessions :
        \A i \in 1 .. Len(hist[s]) :
            LET e == hist[s][i] IN
            (IsCreate(e) \/ IsSpawn(e)) => ~e.ctxDone

-----------------------------------------------------------------------------
(* C6 *)

\* the values returned by all calls of all callers
AllReturned == UNION {Range(returned[c]) : c \in Callers}

InBody == {"body", "v3", "helper", "v2", "fin"}

\* C6: under every interleaving of callers the once-body (the probe
\* sequence) runs at most once; a caller that is about to return, or has
\* returned, finds the computation finished; all calls return the same
\* level, whatever the probes would answer or the dry-mode flag is later.
C6_ComputedOnce ==
    /\ bodyRuns <= 1
    /\ Len(probeLog) <= 3
    /\ Cardinality({c \in Callers : cpc[c] \in InBody}) <= 1
    /\ \A c \in Callers :
          (cpc[c] = "ret" \/ returned[c] # <<>>) =>
              /\ onceDone
              /\ \A d \in Callers : cpc[d] \notin InBody
    /\ Cardinality(AllReturned) <= 1
    /\ \A c \in Callers : cpc[c] = "ret" => AllReturned \subseteq {nameBPFCPU}

\* two callers have returned v3, one of them twice, and the process is by
\* now in dry mode
C6_Witness ==
    \E c, d \in Callers :
        /\ c # d
        /\ Len(returned[c]) = 2
        /\ Len(returned[d]) >= 1
        /\ AllReturned = {"v3"}
        /\ dryRead = "live"
        /\ DryMode

-----------------------------------------------------------------------------
(* C7 *)

\* C7: when the process is in dry mode as the level is computed, no probe
\* is ever invoked and every call returns v1.
C7_DryRunNoProbe ==
    dryRead # "live" =>
        /\ probeLog = <<>>
        /\ nameBPFCPU = "v1"
        /\ AllReturned \subseteq {"v1"}

\* in dry mode, both callers have made all their calls
C7_Witness ==
    /\ dryRead = "dry"
    /\ \A c \in Callers : Len(returned[c]) = MaxCalls

-----------------------------------------------------------------------------
(* C8 *)

ProductionName(cat) ==
    CASE cat = "endpoint" -> "bpf_lxc.o"
      [] cat = "host"     -> "bpf_host.o"
      [] cat = "network"  -> "bpf_network.o"
      [] cat = "overlay"  -> "bpf_overlay.o"

DebugNames(cat) ==
    CASE cat = "endpoint" -> {"bpf_lxc.dbg.o", "bpf_lxc.asm", "bpf_lxc.c"}
      [] cat = "host"     -> {"bpf_host.dbg.o", "bpf_host.asm", "bpf_host.c"}
      [] OTHER            -> {}

\* how often artifact a was attempted in history h
Attempts(h, a) == Cardinality({i \in 1 .. Len(h) : IsAttempt(h[i]) /\ h[i].cmd = a})

-----------------------------------------------------------------------------
(* C9 *)

HasFlag(f) == f \in Range(compileArgs)

\* the programs built because debug output was requested
DebugOutputs ==
    {"bpf_lxc.dbg.o", "bpf_lxc.asm", "bpf_lxc.c",
     "bpf_host.dbg.o", "bpf_host.asm", "bpf_host.c"}

-----------------------------------------------------------------------------
(* C10 *)

\* C10: the flag sequence starts with the test seam's includes, then
\* -I<Runtime>/globals, -I<State>, -I<Library>, -I<Library>/include; it
\* ends with -c <Library>/<Source> -o -; the caller's options stand
\* directly before that tail, in their order; -mcpu=<level GetBPFCPU
\* returned> stands directly before the options; the standard flag set
\* stands directly before -mcpu, after the includes.
C10_FlagOrder ==
    compileArgs # <<>> =>
        LET a    == compileArgs
            n    == Len(a)
            t    == Len(testIncludes)
            o    == Len(lastProg.Options)
            m    == n - 4 - o
            std  == Len(standardCFlags)
        IN  /\ SubSeq(a, 1, t) = testIncludes
            /\ a[t + 1] = "-I" \o lastDir.Runtime \o "/globals"
            /\ a[t + 2] = "-I" \o lastDir.State
            /\ a[t + 3] = "-I" \o lastDir.Library
            /\ a[t + 4] = "-I" \o lastDir.Library \o "/include"
            /\ m - std > t + 4
            /\ SubSeq(a, m - std, m - 1) = standardCFlags
            /\ a[m] = "-mcpu=" \o lastCPU
            /\ lastCPU = nameBPFCPU
            /\ SubSeq(a, m + 1, m + o) = lastProg.Options
            /\ SubSeq(a, n - 3, n) =
                  <<"-c", lastDir.Library \o "/" \o lastProg.Source, "-o", "-">>

\* the overlay program with one extra option, under a test include
C10_Witness ==
    /\ lastProg.Output = "bpf_overlay.o"
    /\ lastProg.Options = <<"-DFOO=1">>
    /\ testIncludes # <<>>
    /\ compileArgs # <<>>

-----------------------------------------------------------------------------
(* C11 *)

\* the class a caller can put compile's error in: errors.Is with
\* context.Canceled, the *fs.PathError of os.Create (returned unwrapped),
\* anything else
ErrorClass(err) ==
    CASE IsCanceled(err) -> "CancellationError"
      [] err = "io"      -> "IOError"
      [] OTHER           -> "ToolchainError"

\* a step of a compile invocation that failed
IsFailedCompileStep(e) == e.cmd # "--version" /\ e.err # "nil"

\* the cause of a failed step of compile: the destination could not be
\* created; the context was done when the process was to be started, or
\* ended the process; the start failed or the process exited non-zero
CauseClass(e) ==
    CASE e.ev = "create"                -> "IOError"
      [] e.ev = "spawn" /\ e.ctxDone    -> "CancellationError"
      [] FailedByCancel(e)              -> "CancellationError"
      [] OTHER                          -> "ToolchainError"

\* C11: every failing compile invocation returns an error to its caller,
\* and the class the caller can put it in is the class of its cause: IOError
\* when the destination could not be created, CancellationError when the
\* context was cancelled before the process was started or while it ran,
\* ToolchainError for a failed start or a non-zero exit under a live context.
C11_ErrorClasses ==
    \A s \in Sessions :
        \A i \in 1 .. Len(hist[s]) :
            LET e == hist[s][i] IN
            IsFailedCompileStep(e) =>
                /\ pc[s] = "failed"
                /\ ErrorClass(result[s]) = CauseClass(e)

-----------------------------------------------------------------------------
(* C12 *)

Started(s) == sess[s].cat # "none"

\* the destination paths of the plan of session s
PlanPaths(s) ==
    {DestPath(SessionPlan(s)[i], SessionDirs(sess[s])) : i \in 1 .. Len(SessionPlan(s))}

\* session s holds its current destination: the file is created and the
\* process that writes it is about to be started or running
Targets(s) ==
    IF pc[s] \in {"created", "running"}
    THEN {DestPath(CurProg(s), SessionDirs(sess[s]))}
    ELSE {}

\* C12: two sessions that differ in category or in output directory have
\* disjoint sets of destination paths, and at no time do both hold the same
\* destination file (created, process starting or running).
C12_DisjointDestinations ==
    \A s, u \in Sessions :
        (/\ s # u
         /\ Started(s) /\ Started(u)
         /\ (sess[s].cat # sess[u].cat \/ sess[s].out # sess[u].out))
        => /\ PlanPaths(s) \cap PlanPaths(u) = {}
           /\ Targets(s) \cap Targets(u) = {}

\* two endpoint sessions with different output directories both have their
\* compiler for bpf_lxc.o running
C12_Witness ==
    /\ sess["s1"].cat = "endpoint" /\ sess["s2"].cat = "endpoint"
    /\ sess["s1"].out # sess["s2"].out
    /\ pc["s1"] = "running" /\ pc["s2"] = "running"
    /\ \A s \in Sessions : \E p \in procs[s] : p.cmd = "bpf_lxc.o" /\ p.st = "running"

-----------------------------------------------------------------------------
(* C13 *)

\* the steps of a session that must succeed: the version query, then the
\* artifacts of its plan
SessionSteps(s) ==
    <<"--version">> \o [i \in 1 .. Len(SessionPlan(s)) |-> SessionPlan(s)[i].Output]

FailedSteps(s) == {i \in 1 .. Len(hist[s]) : hist[s][i].err # "nil"}

\* C13: a session returns success exactly when the version query and every
\* artifact of its plan completed with success; once a step has failed the
\* session returns, to its caller, the error of the first failed step.
C13_SessionResult ==
    \A s \in Sessions :
        /\ pc[s] = "done" =>
              /\ result[s] = "nil"
              /\ FailedSteps(s) = {}
              /\ CmdsOf(hist[s], IsOkReturn) = SessionSteps(s)
        /\ FailedSteps(s) # {} =>
              LET first == CHOOSE i \in FailedSteps(s) : \A j \in FailedSteps(s) : i <= j
              IN  /\ pc[s] = "failed"
                  /\ result[s] = hist[s][first].err
        /\ pc[s] = "failed" => FailedSteps(s) # {} /\ result[s] # "nil"

-----------------------------------------------------------------------------
(* C14 *)

\* the answer the probe named name gave, "none" if it was not queried
AnswerOf(name) ==
    IF \E i \in 1 .. Len(probeLog) : probeLog[i] = name
    THEN probeAns[CHOOSE i \in 1 .. Len(probeLog) : probeLog[i] = name]
    ELSE "none"

\* C14: outside dry mode, once the level is computed it is v3 exactly when
\* the V3 probe and the helper probe both answered nil, v2 exactly when
\* that is not so and the V2 probe answered nil, and v1 otherwise; the V3
\* probe is queried first, the helper probe only right after a V3 probe
\* that answered nil, the V2 probe only right after a probe that answered
\* with an error (v3 not selected); whatever the probes answer, every call
\* returns one of the three levels.
C14_ISASelection ==
    /\ Len(probeAns) = Len(probeLog)
    /\ \A i \in 1 .. Len(probeLog) :
          /\ i = 1 => probeLog[i] = "HaveV3ISA"
          /\ probeLog[i] = "HaveProgramHelper" =>
                i > 1 /\ probeLog[i - 1] = "HaveV3ISA" /\ probeAns[i - 1] = "nil"
          /\ probeLog[i] = "HaveV2ISA" =>
                i > 1 /\ probeLog[i - 1] # "HaveV2ISA" /\ probeAns[i - 1] = "err"
    /\ (dryRead = "live" /\ onceDone) =>
          LET v3 == AnswerOf("HaveV3ISA") = "nil" /\ AnswerOf("HaveProgramHelper") = "nil"
              v2 == AnswerOf("HaveV2ISA") = "nil"
          IN  /\ AnswerOf("HaveV3ISA") # "none"
              /\ nameBPFCPU = "v3" <=> v3
              /\ nameBPFCPU = "v2" <=> (~v3 /\ v2)
              /\ nameBPFCPU = "v1" <=> (~v3 /\ ~v2)
              /\ v3 => AnswerOf("HaveV2ISA") = "none"
              /\ ~v3 => AnswerOf("HaveV2ISA") # "none"
    /\ AllReturned \subseteq ISALevels

\* the V3 probe answered nil, the helper probe and the V2 probe answered
\* with errors, and a call returned v1
C14_Witness ==
    /\ dryRead = "live"
    /\ onceDone
    /\ probeLog = <<"HaveV3ISA", "HaveProgramHelper", "HaveV2ISA">>
    /\ probeAns = <<"nil", "err", "err">>
    /\ AllReturned = {"v1"}

-----------------------------------------------------------------------------
(* C15 *)

IsFailedCreate(e) == e.ev = "create" /\ e.err # "nil"

\* C15: when os.Create fails for the destination of an artifact, compile
\* returns that error at once: the failed creation is the last thing the
\* invocation (and the session) does, no toolchain process is spawned for
\* the artifact, none is in flight, and the error is what the session
\* returns.
C15_CreateFailure ==
    \A s \in Sessions :
        \A i \in 1 .. Len(hist[s]) :
            LET e == hist[s][i] IN
            IsFailedCreate(e) =>
                /\ i = Len(hist[s])
                /\ ~ \E j \in 1 .. Len(hist[s]) :
                        hist[s][j].ev = "spawn" /\ hist[s][j].cmd = e.cmd
                /\ procs[s] = {}
                /\ pc[s] = "failed"
                /\ result[s] = e.err

\* in a debug session the first artifact was built and the destination of
\* the second could not be created
C15_Witness ==
    \E s \in Sessions :
        /\ Debug
        /\ sess[s].cat = "endpoint"
        /\ Len(hist[s]) > 0
        /\ IsFailedCreate(hist[s][Len(hist[s])])
        /\ hist[s][Len(hist[s])].cmd = "bpf_lxc.asm"
        /\ CmdsOf(hist[s], IsSpawn) = <<"--version", "bpf_lxc.dbg.o">>
        /\ pc[s] = "failed"

-----------------------------------------------------------------------------
(* C16 *)

Ended == {"exit0", "exit1", "killed"}

\* C16: when compile returns from an invocation that spawned a process,
\* with success, a toolchain failure or a cancellation, that process has
\* exited or has been killed; a session that is not waiting for a process
\* has none in flight.
C16_NoOrphan ==
    \A s \in Sessions :
        /\ \A i \in 1 .. Len(hist[s]) :
              LET e == hist[s][i] IN
              (e.ev = "return" /\ e.cmd # "--version") => e.st \in Ended
        /\ pc[s] \notin {"version", "running"} => procs[s] = {}

\* a compile returned after the context's cancellation killed its process
C16_Witness ==
    \E s \in Sessions :
        /\ pc[s] = "failed"
        /\ procs[s] = {}
        /\ LET e == hist[s][Len(hist[s])]
           IN  e.ev = "return" /\ e.cmd # "--version" /\ e.st = "killed" /\ e.mid

-----------------------------------------------------------------------------
(* C17 *)

\* C17: at any time during a compile, the diagnostic data captured from
\* the toolchain's standard error and held in memory is at most 1,000,000
\* bytes, whatever the toolchain writes.
C17_CaptureBounded ==
    \A s \in Sessions :
        \A p \in procs[s] : BufferedBytes(p.stderr) <= StderrLimit

-----------------------------------------------------------------------------
(* C18 *)

\* the destination of the artifact named name in session s
DestOf(s, name) ==
    LET i == CHOOSE k \in 1 .. Len(SessionPlan(s)) : SessionPlan(s)[k].Output = name
    IN  DestPath(SessionPlan(s)[i], SessionDirs(sess[s]))

\* the artifacts session s has produced: their compile returned nil
Produced(s) ==
    {hist[s][i].cmd : i \in {k \in 1 .. Len(hist[s]) :
                                IsOkReturn(hist[s][k]) /\ hist[s][k].cmd # "--version"}}

\* C18: the destinations of the steps of a session are pairwise distinct,
\* and the file of every artifact the session has produced keeps the
\* complete artifact through all later steps and after the session has
\* failed or ended: no step creates, truncates or removes the file of
\* another step, and nothing is rolled back.
C18_NoClobber ==
    \A s \in Sessions :
        Started(s) =>
            /\ \A i, j \in 1 .. Len(SessionPlan(s)) :
                  i # j =>
                      DestPath(SessionPlan(s)[i], SessionDirs(sess[s]))
                          # DestPath(SessionPlan(s)[j], SessionDirs(sess[s]))
            /\ \A name \in Produced(s) : FileContent(DestOf(s, name)) = "new"

\* a debug session failed at its third artifact; the two it had produced
\* are in place
C18_Witness ==
    \E s \in Sessions :
        /\ Debug
        /\ sess[s].cat = "host"
        /\ pc[s] = "failed"
        /\ result[s] = "exit"
        /\ idx[s] = 3
        /\ Produced(s) = {"bpf_host.dbg.o", "bpf_host.asm"}
        /\ FileContent(DestOf(s, "bpf_host.c")) = "empty"

-----------------------------------------------------------------------------
(* C20 *)

\* the compile of the artifact failed after its destination was created:
\* the process could not be started, or Run returned an error
FailedAfterCreate(e) ==
    /\ e.cmd # "--version"
    /\ e.ev \in {"spawn", "return"}
    /\ e.err # "nil"

\* the destinations a session has created or truncated
Touched(s) ==
    {DestOf(s, hist[s][i].cmd) : i \in {k \in 1 .. Len(hist[s]) : IsCreate(hist[s][k])}}

\* C20: after a compile of artifact X failed with its destination created,
\* the file X exists and does not hold what an earlier build had left there
\* (it was truncated before the process was spawned and is neither removed
\* nor restored); the files of the artifacts produced before it still hold
\* their complete output, and no file other than the destinations of the
\* steps the session has run was written.
C20_FailedArtifactFile ==
    \A s \in Sessions :
        Started(s) =>
            /\ \A i \in 1 .. Len(hist[s]) :
                  LET e == hist[s][i] IN
                  FailedAfterCreate(e) =>
                      /\ FileContent(DestOf(s, e.cmd)) \notin {"absent", "old"}
                      /\ \A p \in DOMAIN files \ {DestOf(s, e.cmd)} : files[p] = "new"
            /\ DOMAIN files \subseteq Touched(s)

\* an earlier build had left the production object; its compile failed in
\* the compiler and the file is left truncated
C20_Witness ==
    \E s \in Sessions :
        /\ prior = "old"
        /\ sess[s].cat = "endpoint"
        /\ pc[s] = "failed"
        /\ result[s] = "exit"
        /\ hist[s][Len(hist[s])].cmd = "bpf_lxc.o"
        /\ FileContent(DestOf(s, "bpf_lxc.o")) = "empty"
        /\ FileContent(PathJoin(sess[s].out, "bpf_host.o")) = "old"

-----------------------------------------------------------------------------
(* C19 *)

\* C19: every session that is called eventually returns, with success
\* (Done) or with an error (Failed), given that a process that was spawned
\* eventually exits or is killed by the cancellation.
C19_Terminates ==
    \A s \in Sessions :
        (pc[s] = "idle") ~> (pc[s] \in {"done", "failed"})

====
